---- MODULE Spec2Model ----
(***************************************************************************)
(* A model of kornia-rs: the tensor allocator (src/tensor/allocator.rs),   *)
(* the tensor serialization bridge (src/tensor/serde.rs) and the image     *)
(* resize engine (src/resize.rs), with the affine warp of the benchmark    *)
(* (benches/bench_warp.rs), the dataloader example (examples/dataloader.rs)*)
(* and the capture and video writer of src/io.                             *)
(*                                                                         *)
(* The specifications share the variables; a component that a              *)
(* specification does not run stays in its "off" state.                    *)
(*   SpecAlloc  : clones of CpuAllocator running alloc/dealloc cycles      *)
(*   SpecSerde  : Tensor::serialize / Tensor::deserialize over the heap    *)
(*   SpecResize : resize and bilinear_interpolation on small images        *)
(*   SpecWarp   : warp_native on small images                              *)
(*   SpecPar    : the loop of resize, its rows shared out among workers    *)
(*   SpecLoader : the reader, batcher and consumer of examples/dataloader  *)
(*   SpecCapture: the frame callback and run of io/stream and io/webcam    *)
(*   SpecVideo  : VideoWriter::write of io/video                           *)
(***************************************************************************)
EXTENDS Integers, Sequences, FiniteSets, TLC

VARIABLES
    heap,       \* the platform allocator: address -> layout of the live block, or NoLayout
    ub,         \* TRUE once System.dealloc was called outside its contract
    cl,         \* the allocator clients (threads holding a clone of CpuAllocator)
    src_t,      \* the tensor held by the application: <<t>>, or <<>>
    wire,       \* the serialized record in flight: <<r>>, or <<>>
    wire_from,  \* the fields of the tensor `wire` was serialized from (<<>>: a foreign record)
    de,         \* the locals of the running Tensor::deserialize call
    rs,         \* the resize engine: its inputs and outputs
    wp,         \* the affine warp of the benchmark: its inputs and outputs
    pr,         \* a resize whose output rows are computed by a pool of workers
    dl,         \* the dataloader example: its reader threads, batcher task and channels
    sc,         \* a frame capture (StreamCapture, WebcamCapture): callback, channel and run
    vw          \* a VideoWriter: its frame counter and the buffers it stamped

vars == <<heap, ub, cl, src_t, wire, wire_from, de, rs, wp, pr, dl, sc, vw>>

----------------------------------------------------------------------------
(* Bounds of the model *)

MaxBlocks  == 3     \* addresses the platform allocator can hand out
NumClients == 2     \* threads that hold a clone of the allocator
MaxCycles  == 2     \* alloc/dealloc cycles each client runs
MaxLen     == 2     \* elements of a tensor's data
MaxExtent  == 2     \* largest shape extent and stride
MaxSrc     == 2     \* largest height and width of a source image
MaxDst     == 4     \* largest height and width of a resize target
MaxGrad    == 1     \* largest per-row, per-column and per-channel step of the pixel values
MaxShift   == 2     \* largest translation of a warp, in pixels
MaxRows    == 2     \* largest height of the target of a resize by the pool
NumWorkers == 2     \* workers of the pool that computes the rows of a resize
MaxSamples == 3     \* most rows of samples.csv the dataloader reads
MaxBatch   == 2     \* largest batch_size of the dataloader
NumReaders == 2     \* threads of the pool that runs the reader's parallel iterator
MaxFrames  == 53    \* samples the pipeline of a capture hands to its appsink
MaxBad     == 2     \* the first samples of the pipeline may be malformed, this many
MaxWrites  == 3     \* calls of VideoWriter::write the model follows
\* usize::MAX, the value of 0usize - 1 in a build without overflow checks, cut to
\* 16 bits: all that the code's behaviour depends on is that it exceeds every extent.
UsizeMax   == 65535

----------------------------------------------------------------------------
(* The platform allocator (std::alloc::System) and CpuAllocator *)

NULL == 0
Addr == 1..MaxBlocks

NoLayout == <<>>

\* Layout::from_size_align(1024, 64) of test_cpu_allocator, a second layout and
\* one of size zero (for which the platform answers null or a block just the same)
TestLayout  == <<1024, 64>>
OtherLayout == <<16, 8>>
ZeroLayout  == <<0, 1>>
ClientLayouts == {TestLayout, OtherLayout, ZeroLayout}

EmptyHeap == [a \in Addr |-> NoLayout]

Live(h) == {a \in Addr : h[a] # NoLayout}

\* System.alloc(layout): a null pointer (the platform refuses) or the address of
\* a block that is not live.
SystemAllocOutcomes(h) == {NULL} \cup (Addr \ Live(h))

Ok(p)  == [ok |-> TRUE, ptr |-> p, err |-> "none"]
Err(e) == [ok |-> FALSE, ptr |-> NULL, err |-> e]

\* A mutation of CpuAllocator::alloc that wraps whatever the platform returned.
CpuAllocator_alloc_unchecked(raw) == Ok(raw)

\* CpuAllocator::alloc, given the pointer System.alloc(layout) returned
CpuAllocator_alloc(raw) ==
    IF raw = NULL THEN Err("InvalidPointer") ELSE Ok(raw)

\* The heap after a successful platform allocation
HeapAfterAlloc(h, raw, layout) ==
    IF raw = NULL THEN h ELSE [h EXCEPT ![raw] = layout]

\* System.dealloc(ptr, layout): releases the live block at ptr allocated with
\* this very layout; anything else is outside the contract.
SystemDeallocOk(h, ptr, layout) == ptr \in Live(h) /\ h[ptr] = layout

\* A mutation of CpuAllocator::dealloc that never releases the block.
CpuAllocator_dealloc_noop(h, ptr, layout) == h

\* CpuAllocator::dealloc: forwards to System.dealloc
CpuAllocator_dealloc(h, ptr, layout) ==
    IF SystemDeallocOk(h, ptr, layout) THEN [h EXCEPT ![ptr] = NoLayout] ELSE h

----------------------------------------------------------------------------
(* The allocator clients: test_cpu_allocator, run repeatedly by each clone *)

Clients == 1..NumClients

ClientOff  == [pc |-> "off", layout |-> NoLayout, raw |-> NULL,
               res |-> Err("none"), n |-> 0]
ClientInit == [pc |-> "start", layout |-> NoLayout, raw |-> NULL,
               res |-> Err("none"), n |-> 0]

\* let ptr = allocator.alloc(layout)?;
CycleAlloc(c) ==
    /\ cl[c].pc = "start"
    /\ cl[c].n < MaxCycles
    /\ \E layout \in ClientLayouts, raw \in SystemAllocOutcomes(heap) :
         LET res == CpuAllocator_alloc(raw) IN
         /\ heap' = HeapAfterAlloc(heap, raw, layout)
         /\ cl' = [cl EXCEPT ![c] =
                     [pc     |-> IF res.ok THEN "allocated" ELSE "start",
                      layout |-> layout,
                      raw    |-> raw,
                      res    |-> res,
                      n      |-> IF res.ok THEN @.n ELSE @.n + 1]]
    /\ UNCHANGED <<ub, src_t, wire, wire_from, de, rs, wp, pr, dl, sc, vw>>

\* allocator.dealloc(ptr, layout); Ok(())
CycleDealloc(c) ==
    /\ cl[c].pc = "allocated"
    /\ heap' = CpuAllocator_dealloc(heap, cl[c].res.ptr, cl[c].layout)
    /\ ub' = (ub \/ ~SystemDeallocOk(heap, cl[c].res.ptr, cl[c].layout))
    /\ cl' = [cl EXCEPT ![c].pc = "start", ![c].n = @ + 1]
    /\ UNCHANGED <<src_t, wire, wire_from, de, rs, wp, pr, dl, sc, vw>>

----------------------------------------------------------------------------
(* Tensor<T, N, A>, TensorStorage and the serialization bridge *)

\* const N: usize, the fixed rank of the tensor type being deserialized
RankN == 2

ElemVals == {0, 1}
Extents  == 1..MaxExtent

SeqsUpTo(S, n) == UNION {[1..k -> S] : k \in 0..n}

\* The element sequences: at least one element (what TensorStorage::from_vec
\* does with an empty Vec is not in the sources)
DataSeqs  == SeqsUpTo(ElemVals, MaxLen) \ {<<>>}
\* shape and strides as they may arrive: of rank N, shorter or longer
DimSeqs   == SeqsUpTo(Extents, RankN + 1)
RankNSeqs == [1..RankN -> Extents]

\* The layout of a storage of u8 elements: Layout::array::<u8>(len)
StorageLayout(data) == <<Len(data), 1>>

\* TensorStorage::from_vec(data, alloc), given what System.alloc returned: the
\* allocator's error, or a storage owning the block at ptr.
TensorStorage_from_vec(data, raw) ==
    LET res == CpuAllocator_alloc(raw) IN
    IF res.ok
    THEN [ok |-> TRUE,
          storage |-> <<[ptr |-> res.ptr, layout |-> StorageLayout(data), data |-> data]>>]
    ELSE [ok |-> FALSE, storage |-> <<>>]

\* Drop for TensorStorage: alloc.dealloc(ptr, layout) with the recorded layout
TensorStorage_drop(h, st) == CpuAllocator_dealloc(h, st.ptr, st.layout)
TensorStorage_drop_ok(h, st) == SystemDeallocOk(h, st.ptr, st.layout)

\* Tensor::as_slice: the storage's elements
Tensor_as_slice(t) == t.storage.data

\* The observable fields of a tensor
Fields(t) == [data |-> Tensor_as_slice(t), shape |-> t.shape, strides |-> t.strides]

\* A mutation of Tensor::serialize that writes the shape into both fields.
Tensor_serialize_shape_twice(t) ==
    [data |-> Tensor_as_slice(t), shape |-> t.shape, strides |-> t.shape, parses |-> TRUE]

\* Tensor::serialize: the struct "Tensor" with fields data, shape, strides
Tensor_serialize(t) ==
    [data |-> Tensor_as_slice(t), shape |-> t.shape, strides |-> t.strides, parses |-> TRUE]

\* A mutation of the Vec -> [usize; N] conversion that truncates a longer Vec.
TryIntoArray_truncating(v) ==
    IF Len(v) >= RankN THEN [ok |-> TRUE, arr |-> SubSeq(v, 1, RankN)]
    ELSE [ok |-> FALSE, arr |-> <<>>]

\* Vec<usize>::try_into::<[usize; N]>(): succeeds exactly on a Vec of length N
TryIntoArray(v) ==
    IF Len(v) = RankN THEN [ok |-> TRUE, arr |-> v] ELSE [ok |-> FALSE, arr |-> <<>>]

\* Records a deserializer can produce for TensorData, and one that is not a TensorData
WellFormedRecords ==
    [data : DataSeqs, shape : DimSeqs, strides : DimSeqs, parses : {TRUE}]
Garbage == [data |-> <<>>, shape |-> <<>>, strides |-> <<>>, parses |-> FALSE]

DeResultNone == [ok |-> FALSE, err |-> "none", tensor |-> <<>>]
DeErr(e)     == [ok |-> FALSE, err |-> e, tensor |-> <<>>]
DeOk(t)      == [ok |-> TRUE, err |-> "none", tensor |-> <<t>>]

DeIdle == [pc |-> "idle", rec |-> <<>>, from |-> <<>>, storage |-> <<>>,
           shape_array |-> <<>>, raw |-> NULL, calls |-> <<>>,
           result |-> DeResultNone]
DeOff  == [DeIdle EXCEPT !.pc = "off"]

\* The number of elements a shape stands for
RECURSIVE Product(_)
Product(v) == IF v = <<>> THEN 1 ELSE Head(v) * Product(Tail(v))

\* The application builds a tensor from an element sequence, a shape that
\* multiplies to its length, and strides.
NewTensor ==
    /\ de.pc = "idle" /\ src_t = <<>> /\ wire = <<>>
    /\ \E data \in DataSeqs, shape \in RankNSeqs, strides \in RankNSeqs,
          raw \in SystemAllocOutcomes(heap) :
         LET r == TensorStorage_from_vec(data, raw) IN
         /\ Product(shape) = Len(data)
         /\ heap' = HeapAfterAlloc(heap, raw, StorageLayout(data))
         /\ src_t' = IF r.ok
                     THEN <<[storage |-> r.storage[1], shape |-> shape, strides |-> strides]>>
                     ELSE <<>>
    /\ UNCHANGED <<ub, cl, wire, wire_from, de, rs, wp, pr, dl, sc, vw>>

\* The application's tensor goes out of scope.
DropSrc ==
    /\ src_t # <<>>
    /\ heap' = TensorStorage_drop(heap, src_t[1].storage)
    /\ ub' = (ub \/ ~TensorStorage_drop_ok(heap, src_t[1].storage))
    /\ src_t' = <<>>
    /\ UNCHANGED <<cl, wire, wire_from, de, rs, wp, pr, dl, sc, vw>>

\* tensor.serialize(serializer)
Serialize ==
    /\ de.pc = "idle" /\ src_t # <<>> /\ wire = <<>>
    /\ wire' = <<Tensor_serialize(src_t[1])>>
    /\ wire_from' = <<Fields(src_t[1])>>
    /\ UNCHANGED <<heap, ub, cl, src_t, de, rs, wp, pr, dl, sc, vw>>

\* The caller of deserialize serializes the tensor it was returned.
SerializeResult ==
    /\ de.pc = "done" /\ de.result.ok /\ wire = <<>>
    /\ wire' = <<Tensor_serialize(de.result.tensor[1])>>
    /\ wire_from' = <<Fields(de.result.tensor[1])>>
    /\ UNCHANGED <<heap, ub, cl, src_t, de, rs, wp, pr, dl, sc, vw>>

\* A record written by somebody else arrives.
Inject ==
    /\ de.pc = "idle" /\ src_t = <<>> /\ wire = <<>>
    /\ \E r \in WellFormedRecords \cup {Garbage} : wire' = <<r>>
    /\ wire_from' = <<>>
    /\ UNCHANGED <<heap, ub, cl, src_t, de, rs, wp, pr, dl, sc, vw>>

\* let TensorData { data, shape, strides } = TensorData::deserialize(deserializer)?;
DeParse ==
    /\ de.pc = "idle" /\ wire # <<>>
    /\ de' = IF wire[1].parses
             THEN [DeIdle EXCEPT !.pc = "parsed", !.rec = wire, !.from = wire_from]
             ELSE [DeIdle EXCEPT !.pc = "done", !.rec = wire, !.from = wire_from,
                                 !.result = DeErr("parse")]
    /\ wire' = <<>>
    /\ wire_from' = <<>>
    /\ UNCHANGED <<heap, ub, cl, src_t, rs, wp, pr, dl, sc, vw>>

\* let storage_array = TensorStorage::from_vec(data, A::default())
\*     .map_err(|_| Error::custom("Invalid storage"))?;
DeStorage ==
    /\ de.pc = "parsed"
    /\ \E raw \in SystemAllocOutcomes(heap) :
         LET data == de.rec[1].data
             r    == TensorStorage_from_vec(data, raw)
             call == <<"alloc", raw, StorageLayout(data)>>
         IN
         /\ heap' = HeapAfterAlloc(heap, raw, StorageLayout(data))
         /\ de' = IF r.ok
                  THEN [de EXCEPT !.pc = "storage", !.storage = r.storage, !.raw = raw,
                                  !.calls = Append(@, call)]
                  ELSE [de EXCEPT !.pc = "done", !.raw = raw,
                                  !.calls = Append(@, call),
                                  !.result = DeErr("Invalid storage")]
    /\ UNCHANGED <<ub, cl, src_t, wire, wire_from, rs, wp, pr, dl, sc, vw>>

\* The early return of `?` with storage_array in scope: the storage is dropped.
DeFail(e) ==
    LET st == de.storage[1] IN
    /\ heap' = TensorStorage_drop(heap, st)
    /\ ub' = (ub \/ ~TensorStorage_drop_ok(heap, st))
    /\ de' = [de EXCEPT !.pc = "done", !.storage = <<>>,
                        !.calls = Append(@, <<"dealloc", st.ptr, st.layout>>),
                        !.result = DeErr(e)]

\* A mutation of the shape conversion's error path that forgets the storage.
DeShape_forget ==
    /\ de.pc = "storage"
    /\ LET a == TryIntoArray(de.rec[1].shape) IN
       IF a.ok
       THEN /\ de' = [de EXCEPT !.pc = "shape", !.shape_array = a.arr]
            /\ UNCHANGED <<heap, ub>>
       ELSE /\ de' = [de EXCEPT !.pc = "done", !.storage = <<>>,
                                !.result = DeErr("Invalid shape")]
            /\ UNCHANGED <<heap, ub>>
    /\ UNCHANGED <<cl, src_t, wire, wire_from, rs, wp, pr, dl, sc, vw>>

\* let shape_array: [usize; N] = shape.try_into()
\*     .map_err(|_| Error::custom("Invalid shape"))?;
DeShape ==
    /\ de.pc = "storage"
    /\ LET a == TryIntoArray(de.rec[1].shape) IN
       IF a.ok
       THEN /\ de' = [de EXCEPT !.pc = "shape", !.shape_array = a.arr]
            /\ UNCHANGED <<heap, ub>>
       ELSE DeFail("Invalid shape")
    /\ UNCHANGED <<cl, src_t, wire, wire_from, rs, wp, pr, dl, sc, vw>>

\* let strides_array: [usize; N] = strides.try_into()
\*     .map_err(|_| Error::custom("Invalid strides"))?;
\* Ok(Tensor { storage: storage_array, shape: shape_array, strides: strides_array })
DeStrides ==
    /\ de.pc = "shape"
    /\ LET a == TryIntoArray(de.rec[1].strides) IN
       IF a.ok
       THEN /\ de' = [de EXCEPT !.pc = "done", !.storage = <<>>,
                       !.result = DeOk([storage |-> de.storage[1],
                                        shape   |-> de.shape_array,
                                        strides |-> a.arr])]
            /\ UNCHANGED <<heap, ub>>
       ELSE DeFail("Invalid strides")
    /\ UNCHANGED <<cl, src_t, wire, wire_from, rs, wp, pr, dl, sc, vw>>

\* The caller is done with the result: a returned tensor's lifetime ends.
DeRelease ==
    /\ de.pc = "done"
    /\ IF de.result.ok
       THEN /\ heap' = TensorStorage_drop(heap, de.result.tensor[1].storage)
            /\ ub' = (ub \/ ~TensorStorage_drop_ok(heap, de.result.tensor[1].storage))
       ELSE UNCHANGED <<heap, ub>>
    /\ de' = [DeIdle EXCEPT !.pc = "released", !.rec = de.rec, !.from = de.from,
                            !.raw = de.raw,
                            !.calls = IF de.result.ok
                                      THEN Append(de.calls,
                                             <<"dealloc", de.result.tensor[1].storage.ptr,
                                               de.result.tensor[1].storage.layout>>)
                                      ELSE de.calls]
    /\ UNCHANGED <<cl, src_t, wire, wire_from, rs, wp, pr, dl, sc, vw>>

\* The next call of deserialize may start.
DeReset ==
    /\ de.pc = "released"
    /\ de' = DeIdle
    /\ UNCHANGED <<heap, ub, cl, src_t, wire, wire_from, rs, wp, pr, dl, sc, vw>>


----------------------------------------------------------------------------
(* Image and the resize engine (src/resize.rs) *)

NumChannels == 3
Channels == 0..(NumChannels - 1)

\* The index set of an Array3 of shape (h, w, 3)
Idx(h, w) == (0..(h - 1)) \X (0..(w - 1)) \X Channels

\* The significand of an f32 holds 24 bits: every whole number up to 2^24 is an
\* f32, above it only every second one (up to 2^25), every fourth one, ...
F32Bits == 24

\* The smallest extent e for which (e - 1) as f32 is not e - 1 but e
WideExtent == 2^F32Bits + 4

\* A source image is height x width x 3 values of u8; the value at (r, c, k) is a
\* base plus a step per row, per column and per channel (mod 256). Its Array3 is
\* kept as this rule, so that an image of WideExtent columns can be written down.
SrcImage(h, w, base, gr, gc, gk) ==
    [h |-> h, w |-> w, base |-> base, gr |-> gr, gc |-> gc, gk |-> gk]

\* image.data[[r, c, k]] for an index inside the array
Pixel(img, r, c, k) == (img.base + img.gr * r + img.gc * c + img.gk * k) % 256

\* Whether [[r, c, k]] is inside the array of the image (outside, indexing panics)
InBounds(img, r, c, k) ==
    /\ 0 <= r /\ r < img.h
    /\ 0 <= c /\ c < img.w
    /\ k \in Channels

\* The samples start at a base and are flat or grow by MaxGrad along an axis
Bases == {1, 100}
Grads == {0, MaxGrad}

\* Heights and widths of the sources: small ones, an empty axis included, and
\* one row or one column of WideExtent pixels
SrcShapes ==
    ((0..MaxSrc) \X (0..MaxSrc)) \cup {<<1, WideExtent>>, <<WideExtent, 1>>}

SrcImages ==
    {SrcImage(hw[1], hw[2], b, gr, gc, gk) :
        hw \in SrcShapes, b \in Bases, gr \in Grads, gc \in Grads, gk \in Grads}

Builds == {"debug", "release"}

\* `x as f32` for a usize x: the nearest f32, a tie going to the even significand.
\* The number of low bits an f32 cannot hold of x:
RECURSIVE BitsOver(_)
BitsOver(x) == IF x < 2^F32Bits THEN 0 ELSE 1 + BitsOver(x \div 2)

ToF32(x) ==
    LET k    == BitsOver(x)
        p    == 2^k
        q    == x \div p
        r    == x % p
    IN  IF k = 0 THEN x
        ELSE IF 2 * r > p \/ (2 * r = p /\ q % 2 = 1) THEN (q + 1) * p
        ELSE q * p

\* The f32 values of the engine are finite and not negative: m * 2^e with
\* 2^23 <= m < 2^24, or zero. Every operation rounds its exact result to the
\* nearest such value, a tie going to the even significand, as the hardware does.
F32(m, e) == [m |-> m, e |-> e]
F32Zero   == F32(0, 0)
F32Top    == 2^F32Bits
F32Half   == 2^(F32Bits - 1)

\* m * 2^e for a whole m that needs no rounding
RECURSIVE F32Norm(_, _)
F32Norm(m, e) ==
    IF m = 0 THEN F32Zero
    ELSE IF m < F32Half THEN F32Norm(2 * m, e - 1)
    ELSE IF m >= F32Top THEN F32Norm(m \div 2, e + 1)
    ELSE F32(m, e)

\* (m + num / den) * 2^e rounded, for 0 <= num < den and F32Half <= m < F32Top
F32Round(m, num, den, e) ==
    LET up == 2 * num > den \/ (2 * num = den /\ m % 2 = 1)
    IN  F32Norm(IF up THEN m + 1 ELSE m, e)

F32FromUsize(x) == F32Norm(ToF32(x), 0)
F32One == F32FromUsize(1)

\* a + b
F32Add(a, b) ==
    IF a.m = 0 THEN b
    ELSE IF b.m = 0 THEN a
    ELSE
    LET hi == IF a.e >= b.e THEN a ELSE b
        lo == IF a.e >= b.e THEN b ELSE a
        d  == hi.e - lo.e
    IN  IF d > F32Bits THEN hi
        ELSE
        LET p  == 2^d
            s  == hi.m + (lo.m \div p)
            bl == lo.m % p
        IN  IF s < F32Top THEN F32Round(s, bl, p, hi.e)
            ELSE F32Round(s \div 2, (s % 2) * p + bl, 2 * p, hi.e + 1)

\* a - b for a >= b
F32Sub(a, b) ==
    IF b.m = 0 THEN a
    ELSE
    LET d == a.e - b.e
    IN  IF d > F32Bits + 1 THEN a
        ELSE
        LET p  == 2^d
            bh == b.m \div p
            bl == b.m % p
        IN  IF bl = 0 THEN F32Norm(a.m - bh, a.e)
            ELSE
            LET s == a.m - bh - 1
                r == p - bl
            IN  IF s >= F32Half THEN F32Round(s, r, p, a.e)
                ELSE IF d = 1 THEN F32Norm(2 * s + 1, a.e - 1)
                ELSE F32Round(2 * s + (r \div (p \div 2)), r % (p \div 2),
                              p \div 2, a.e - 1)

\* a * b: the 48-bit product of the significands, in two halves of 24 bits
F32Mul(a, b) ==
    IF a.m = 0 \/ b.m = 0 THEN F32Zero
    ELSE
    LET l   == 2^(F32Bits \div 2)
        a1  == a.m \div l
        a0  == a.m % l
        b1  == b.m \div l
        b0  == b.m % l
        mid == a1 * b0 + a0 * b1
        low == (mid % l) * l + a0 * b0
        hi  == a1 * b1 + (mid \div l) + (low \div F32Top)
        lo  == low % F32Top
    IN  IF hi >= F32Half THEN F32Round(hi, lo, F32Top, a.e + b.e + F32Bits)
        ELSE F32Round(2 * hi + (lo \div F32Half), lo % F32Half, F32Half,
                      a.e + b.e + F32Bits - 1)

\* bits more binary digits of the quotient q of a division by d, r its remainder
RECURSIVE F32LongDiv(_, _, _, _)
F32LongDiv(q, r, d, bits) ==
    IF bits = 0 THEN <<q, r>>
    ELSE F32LongDiv(2 * q + ((2 * r) \div d), (2 * r) % d, d, bits - 1)

\* a / b for b > 0
F32Div(a, b) ==
    IF a.m = 0 THEN F32Zero
    ELSE
    LET bits == IF a.m >= b.m THEN F32Bits - 1 ELSE F32Bits
        qr   == F32LongDiv(a.m \div b.m, a.m % b.m, b.m, bits)
    IN  F32Round(qr[1], qr[2], b.m, a.e - b.e - bits)

\* a.trunc() as usize (the values of the model stay below 2^31)
F32Trunc(a) ==
    IF a.e >= 0 THEN a.m * 2^a.e
    ELSE IF -a.e >= F32Bits THEN 0
    ELSE a.m \div 2^(-a.e)

\* a.fract()
F32Fract(a) ==
    IF a.e >= 0 THEN F32Zero
    ELSE IF -a.e >= F32Bits THEN a
    ELSE F32Norm(a.m % 2^(-a.e), a.e)

\* a <= b and a < b
F32Le(a, b) == a.m = 0 \/ (b.m # 0 /\ (a.e < b.e \/ (a.e = b.e /\ a.m <= b.m)))
F32Lt(a, b) == ~F32Le(b, a)

Panic       == [panic |-> TRUE, val |-> F32Zero]
Value(q)    == [panic |-> FALSE, val |-> q]

\* The four samples bilinear_interpolation reads around (iv, iu) for channel c:
\* <<val00, val01, val10, val11>>, (iv, iu) being inside the array
Taps(image, iu, iv, c) ==
    LET val00 == Pixel(image, iv, iu, 0)
        val01 == IF iu + 1 < image.w THEN Pixel(image, iv, iu + 1, c) ELSE val00
        val10 == IF iv + 1 < image.h THEN Pixel(image, iv + 1, iu, c) ELSE val00
        val11 == IF iu + 1 < image.w /\ iv + 1 < image.h
                 THEN Pixel(image, iv + 1, iu + 1, c) ELSE val00
    IN  <<val00, val01, val10, val11>>

\* bilinear_interpolation(image, u, v, c). An index outside the array panics.
bilinear_interpolation(image, u, v, c) ==
    LET iu     == F32Trunc(u)
        iv     == F32Trunc(v)
        frac_u == F32Fract(u)
        frac_v == F32Fract(v)
    IN  IF ~InBounds(image, iv, iu, 0) THEN Panic
        ELSE
        LET t     == Taps(image, iu, iv, c)
            val00 == F32FromUsize(t[1])
            val01 == F32FromUsize(t[2])
            val10 == F32FromUsize(t[3])
            val11 == F32FromUsize(t[4])
            one_u == F32Sub(F32One, frac_u)
            one_v == F32Sub(F32One, frac_v)
        IN  Value(F32Add(F32Add(F32Add(F32Mul(F32Mul(val00, one_u), one_v),
                                       F32Mul(F32Mul(val01, frac_u), one_v)),
                                F32Mul(F32Mul(val10, one_u), frac_v)),
                         F32Mul(F32Mul(val11, frac_u), frac_v)))

\* A cast that rounds to the nearest whole number instead of truncating
CastU8_rounding(q) ==
    LET t == F32Trunc(F32Add(q, F32Norm(1, -1))) IN IF t > 255 THEN 255 ELSE t

\* `f as u8`: truncation toward zero, saturating at 255
CastU8(q) ==
    LET t == F32Trunc(q) IN IF t > 255 THEN 255 ELSE t

\* ndarray::Array::linspace(0., b, n): the n values 0. + step * i with
\* step = b / (n - 1), and step = 0 when n <= 1
linspace(b, n) ==
    LET step == IF n > 1 THEN F32Div(b, F32FromUsize(n - 1)) ELSE F32Zero
    IN  [i \in 0..(n - 1) |-> F32Add(F32Zero, F32Mul(step, F32FromUsize(i)))]

\* meshgrid(x, y): xx[i, j] = x[j] and yy[i, j] = y[i], both of shape (ny, nx)
meshgrid(x, y) ==
    LET nx == Cardinality(DOMAIN x)
        ny == Cardinality(DOMAIN y)
    IN  [shape |-> <<ny, nx>>,
         xx |-> [g \in (0..(ny - 1)) \X (0..(nx - 1)) |-> x[g[2]]],
         yy |-> [g \in (0..(ny - 1)) \X (0..(nx - 1)) |-> y[g[1]]]]

\* Array3::<u8>::zeros((new_size.height, new_size.width, 3))
OutputZeros(new_size) ==
    [h |-> new_size.h, w |-> new_size.w,
     data |-> [x \in Idx(new_size.h, new_size.w) |-> 0]]

\* x - 1 on usize: a panic with overflow checks (debug), a wrap-around without
UsizeSub1(x) == IF x = 0 THEN UsizeMax ELSE x - 1
Sub1Panics(x, build) == x = 0 /\ build = "debug"

ResizePanic == [panic |-> TRUE, image |-> <<>>]
ResizeOk(img) == [panic |-> FALSE, image |-> <<img>>]

\* The coordinates resize samples the source at: xx and yy of shape
\* (new_size.height, new_size.width)
ResizeGrid(image, new_size) ==
    meshgrid(linspace(F32FromUsize(UsizeSub1(image.w)), new_size.w),
             linspace(F32FromUsize(UsizeSub1(image.h)), new_size.h))

\* The value the loop body computes for output[[i, j, k]], p = <<i, j, k>>
ResizeCell(image, grid, p) ==
    bilinear_interpolation(image, grid.xx[<<p[1], p[2]>>], grid.yy[<<p[1], p[2]>>], p[3])

\* resize(image, new_size)
resize(image, new_size, build) ==
    IF Sub1Panics(image.w, build) \/ Sub1Panics(image.h, build) THEN ResizePanic
    ELSE
    LET output == OutputZeros(new_size)
        grid   == ResizeGrid(image, new_size)
        cells  == (0..(grid.shape[1] - 1)) \X (0..(grid.shape[2] - 1)) \X Channels
        at(p)  == ResizeCell(image, grid, p)
    IN  IF \E p \in cells : at(p).panic \/ p \notin DOMAIN output.data
        THEN ResizePanic
        ELSE ResizeOk([output EXCEPT !.data =
                 [p \in DOMAIN output.data |->
                     IF p \in cells THEN CastU8(at(p).val) ELSE output.data[p]]])

\* A target width for which the last value of linspace(0., 1., n) falls short of 1.
LongTarget == 42

\* The targets: every small height and width, an empty axis included, and one
\* row of LongTarget pixels
Sizes == [h : 0..MaxDst, w : 0..MaxDst] \cup {[h |-> 1, w |-> LongTarget]}

NoSize  == [h |-> 0, w |-> 0]
NoProbe == [u |-> F32Zero, v |-> F32Zero, c |-> 0, res |-> Panic]

\* The coordinates a caller of bilinear_interpolation passes, 0 <= u <= n - 1,
\* in steps of one half; of a wide axis, those up to MaxSrc
Min(a, b) == IF a < b THEN a ELSE b
HalfSteps(n) == {F32Norm(a, -1) : a \in 0..(2 * (Min(n, MaxSrc + 1) - 1))}

\* A call of resize: the image is moved into the call.
Resize ==
    /\ rs.pc = "ready"
    /\ \E new_size \in Sizes, build \in Builds :
         rs' = [rs EXCEPT !.pc = "done", !.new_size = new_size, !.build = build,
                          !.out = resize(rs.image, new_size, build)]
    /\ UNCHANGED <<heap, ub, cl, src_t, wire, wire_from, de, wp, pr, dl, sc, vw>>

\* A call of bilinear_interpolation on the image
Interpolate ==
    /\ rs.pc = "ready"
    /\ \E u \in HalfSteps(rs.image.w), v \in HalfSteps(rs.image.h), c \in Channels :
         rs' = [rs EXCEPT !.pc = "probed",
                          !.probe = [u |-> u, v |-> v, c |-> c,
                                     res |-> bilinear_interpolation(rs.image, u, v, c)]]
    /\ UNCHANGED <<heap, ub, cl, src_t, wire, wire_from, de, wp, pr, dl, sc, vw>>

----------------------------------------------------------------------------
(* The affine warp of the benchmark (benches/bench_warp.rs) *)

\* The f32 values of the warp carry a sign: s = 1 or -1, and the magnitude a. A
\* zero is kept with s = 1: the code never inspects the sign of a zero.
S32(s, a)       == [s |-> IF a.m = 0 THEN 1 ELSE s, a |-> a]
S32Zero         == S32(1, F32Zero)
S32FromUsize(x) == S32(1, F32FromUsize(x))
S32Neg(x)       == S32(-x.s, x.a)
S32Mul(x, y)    == S32(x.s * y.s, F32Mul(x.a, y.a))
S32Add(x, y)    ==
    IF x.s = y.s THEN S32(x.s, F32Add(x.a, y.a))
    ELSE IF F32Le(y.a, x.a) THEN S32(x.s, F32Sub(x.a, y.a))
    ELSE S32(y.s, F32Sub(y.a, x.a))
S32Sub(x, y)    == S32Add(x, S32Neg(y))
S32Lt(x, y)     ==
    IF x.s = y.s THEN (IF x.s = 1 THEN F32Lt(x.a, y.a) ELSE F32Lt(y.a, x.a))
    ELSE x.s = -1

\* x.floor() as usize: the cast of a negative value is 0
S32FloorUsize(x) == IF x.s = -1 THEN 0 ELSE F32Trunc(x.a)

\* The f32 n / 2 for an integer n
S32Halves(n) == S32(IF n < 0 THEN -1 ELSE 1, F32Norm(IF n < 0 THEN -n ELSE n, -1))

\* Image::from_size_val(new_size, val): the image of the requested height and
\* width, 3 channels, every value val
Image_from_size_val(new_size, val) ==
    [h |-> new_size.h, w |-> new_size.w,
     data |-> [p \in Idx(new_size.h, new_size.w) |-> val]]

\* image.get_pixel(x, y, ch): <<value>> for Ok(value), <<>> for the error of an
\* index outside the image
Image_get_pixel(image, x, y, ch) ==
    IF InBounds(image, y, x, ch) THEN <<S32FromUsize(Pixel(image, y, x, ch))>> ELSE <<>>

\* ndarray::Array::range(0.0, n as f32, 1.0): the values 0. + 1. * i below n
range(n) ==
    [i \in 0..(F32Trunc(F32FromUsize(n)) - 1) |->
        F32Add(F32Zero, F32Mul(F32One, F32FromUsize(i)))]

\* (lo..hi).step_by(step)
StepBy(lo, hi, step) == {c \in lo..(hi - 1) : (c - lo) % step = 0}

\* The source position of the output position (u, v) under the matrix m
WarpSource(m, u, v) ==
    [u |-> S32Add(S32Add(S32Mul(m[1], u), S32Mul(m[2], v)), m[3]),
     v |-> S32Add(S32Add(S32Mul(m[4], u), S32Mul(m[5], v)), m[6])]

\* A check of the lower bounds alone
WarpSkips_lower_only(image, u_src, v_src) ==
    S32Lt(u_src, S32Zero) \/ S32Lt(v_src, S32Zero)

\* Whether the closure returns before it writes: the source position is outside
\* [0, width - 1) x [0, height - 1)
WarpSkips(image, u_src, v_src) ==
    \/ S32Lt(u_src, S32Zero)
    \/ S32Lt(v_src, S32Zero)
    \/ ~S32Lt(u_src, S32Sub(S32FromUsize(image.w), S32FromUsize(1)))
    \/ ~S32Lt(v_src, S32Sub(S32FromUsize(image.h), S32FromUsize(1)))

WarpRowPanic(out) == [panic |-> TRUE, out |-> out]
WarpRow(out)      == [panic |-> FALSE, out |-> out]

\* The rest of the closure: the weights, the four samples of each channel of the
\* channel loop, and the write of their weighted sum (a tree sum of the four
\* lanes) to the pixel `out` (channel -> value). An unwrap of an error panics.
WarpPixel(image, u_src, v_src, out) ==
    LET u0    == S32FloorUsize(u_src)
        v0    == S32FloorUsize(v_src)
        u1    == u0 + 1
        v1    == v0 + 1
        wa    == <<S32FromUsize(u1), S32FromUsize(u1), u_src, u_src>>
        wb    == <<S32FromUsize(v1), v_src, S32FromUsize(v1), v_src>>
        wc    == <<u_src, u_src, S32FromUsize(u0), S32FromUsize(u0)>>
        wd    == <<S32FromUsize(v1), v_src, S32FromUsize(v1), S32FromUsize(v0)>>
        w     == [l \in 1..4 |-> S32Mul(S32Sub(wa[l], wc[l]), S32Sub(wb[l], wd[l]))]
        cs    == StepBy(0, NumChannels, 4)
        p(c)  == <<Image_get_pixel(image, u0, v0, c), Image_get_pixel(image, u0, v1, c),
                   Image_get_pixel(image, u1, v0, c), Image_get_pixel(image, u1, v1, c)>>
        pw(c) == [l \in 1..4 |-> S32Mul(p(c)[l][1], w[l])]
        sum(c) == S32Add(S32Add(pw(c)[1], pw(c)[2]), S32Add(pw(c)[3], pw(c)[4]))
    IN  IF \E c \in cs, l \in 1..4 : p(c)[l] = <<>> THEN WarpRowPanic(out)
        ELSE WarpRow([c \in DOMAIN out |-> IF c \in cs THEN sum(c) ELSE out[c]])

WarpPanic   == [panic |-> TRUE, image |-> <<>>]
WarpOk(img) == [panic |-> FALSE, image |-> <<img>>]

\* warp_native(image, m, new_size)
warp_native(image, m, new_size) ==
    LET output  == Image_from_size_val(new_size, S32Zero)
        grid    == meshgrid(range(new_size.w), range(new_size.h))
        pixels  == (0..(grid.shape[1] - 1)) \X (0..(grid.shape[2] - 1))
        src(q)  == WarpSource(m, S32(1, grid.xx[q]), S32(1, grid.yy[q]))
        out(q)  == [c \in Channels |-> output.data[<<q[1], q[2], c>>]]
        body(q) == IF WarpSkips(image, src(q).u, src(q).v) THEN WarpRow(out(q))
                   ELSE WarpPixel(image, src(q).u, src(q).v, out(q))
    IN  IF grid.shape # <<output.h, output.w>> \/ \E q \in pixels : body(q).panic
        THEN WarpPanic
        ELSE WarpOk([output EXCEPT !.data =
                 [x \in DOMAIN output.data |-> body(<<x[1], x[2]>>).out[x[3]]]])

\* The sources of the warp: the images of at most MaxSrc rows and columns, an
\* empty axis included, whose samples are the whole numbers from 100 on, growing
\* along the rows, the columns and the channels
WarpImages ==
    {SrcImage(h, w, 100, MaxGrad, MaxGrad, MaxGrad) : h \in 0..MaxSrc, w \in 0..MaxSrc}

\* The targets of the warp: up to one row and one column more than the sources
WarpSizes == [h : 0..(MaxSrc + 1), w : 0..(MaxSrc + 1)]

\* The matrices: the translations by half pixels, a scaling by one half and a
\* mirror of the columns
Shifts == {S32Halves(n) : n \in (-2 * MaxShift)..(2 * MaxShift)}
Translation(tx, ty) ==
    <<S32FromUsize(1), S32Zero, tx, S32Zero, S32FromUsize(1), ty>>
Matrices ==
    {Translation(tx, ty) : tx \in Shifts, ty \in Shifts}
      \cup {<<S32Halves(1), S32Zero, S32Zero, S32Zero, S32Halves(1), S32Zero>>,
            <<S32Halves(-2), S32Zero, S32Halves(2), S32Zero, S32FromUsize(1), S32Zero>>}

NoMatrix == Translation(S32Zero, S32Zero)

\* A call of warp_native
Warp ==
    /\ wp.pc = "ready"
    /\ \E m \in Matrices, new_size \in WarpSizes :
         wp' = [wp EXCEPT !.pc = "done", !.m = m, !.new_size = new_size,
                          !.out = warp_native(wp.image, m, new_size)]
    /\ UNCHANGED <<heap, ub, cl, src_t, wire, wire_from, de, rs, pr, dl, sc, vw>>

----------------------------------------------------------------------------
(* The loop of resize, its rows shared out among the workers of a pool *)

Workers == 1..NumWorkers
Idle    == -1

\* The sources: an image of the largest small size, one without rows, and one
\* row of WideExtent pixels; the samples grow along rows, columns and channels
PrImages ==
    {SrcImage(hw[1], hw[2], 1, MaxGrad, MaxGrad, MaxGrad) :
        hw \in {<<MaxSrc, MaxSrc>>, <<0, MaxSrc>>, <<1, WideExtent>>}}

PrSizes == [h : 0..MaxRows, w : 0..MaxSrc]

\* The positions the loop body writes for the pixel (i, j) of the output
RowCells_first_row(i, j) == {<<0, j, k>> : k \in Channels}

RowCells(i, j) == {<<i, j, k>> : k \in Channels}

\* The call starts: the output and the grid are made.
ParStart ==
    /\ pr.pc = "ready"
    /\ \E new_size \in PrSizes, build \in Builds :
         IF Sub1Panics(pr.image.w, build) \/ Sub1Panics(pr.image.h, build)
         THEN pr' = [pr EXCEPT !.pc = "panicked", !.new_size = new_size, !.build = build]
         ELSE pr' = [pr EXCEPT !.pc = "running", !.new_size = new_size, !.build = build,
                               !.out = OutputZeros(new_size).data,
                               !.writes = [p \in Idx(new_size.h, new_size.w) |-> 0],
                               !.by = [i \in 0..(ResizeGrid(pr.image, new_size).shape[1] - 1)
                                          |-> 0]]
    /\ UNCHANGED <<heap, ub, cl, src_t, wire, wire_from, de, rs, wp, dl, sc, vw>>

\* An idle worker takes a row no worker has taken.
ParTake(w, i) ==
    /\ pr.pc = "running"
    /\ pr.row[w] = Idle
    /\ i \in DOMAIN pr.by /\ pr.by[i] = 0
    /\ LET cols == ResizeGrid(pr.image, pr.new_size).shape[2]
       IN  pr' = [pr EXCEPT !.by[i] = w,
                            !.row[w] = IF cols = 0 THEN Idle ELSE i,
                            !.col[w] = 0,
                            !.reordered = @ \/ \E l \in DOMAIN pr.by : l < i /\ pr.by[l] = 0]
    /\ UNCHANGED <<heap, ub, cl, src_t, wire, wire_from, de, rs, wp, dl, sc, vw>>

\* A worker computes the next pixel of its row: the body of the loops.
ParPixel(w) ==
    /\ pr.pc = "running"
    /\ pr.row[w] # Idle
    /\ LET i     == pr.row[w]
           j     == pr.col[w]
           grid  == ResizeGrid(pr.image, pr.new_size)
           cells == RowCells(i, j)
           at(p) == ResizeCell(pr.image, grid, <<i, j, p[3]>>)
       IN  IF \E p \in cells : at(p).panic \/ p \notin DOMAIN pr.out
           THEN pr' = [pr EXCEPT !.pc = "panicked"]
           ELSE pr' = [pr EXCEPT
                    !.out = [p \in DOMAIN pr.out |->
                                IF p \in cells THEN CastU8(at(p).val) ELSE pr.out[p]],
                    !.writes = [p \in DOMAIN pr.writes |->
                                IF p \in cells THEN pr.writes[p] + 1 ELSE pr.writes[p]],
                    !.col[w] = j + 1,
                    !.row[w] = IF j + 1 = grid.shape[2] THEN Idle ELSE i]
    /\ UNCHANGED <<heap, ub, cl, src_t, wire, wire_from, de, rs, wp, dl, sc, vw>>

\* Every row was taken and every worker is idle: the call returns the output.
ParJoin ==
    /\ pr.pc = "running"
    /\ \A i \in DOMAIN pr.by : pr.by[i] # 0
    /\ \A w \in Workers : pr.row[w] = Idle
    /\ pr' = [pr EXCEPT !.pc = "joined"]
    /\ UNCHANGED <<heap, ub, cl, src_t, wire, wire_from, de, rs, wp, dl, sc, vw>>

----------------------------------------------------------------------------
(* The dataloader example: Dataloader::start and the loop of main *)

Readers    == 1..NumReaders
BatchSizes == 1..MaxBatch

\* tokio::sync::mpsc::channel(capacity): a send waits while the queue is full
ChannelFull_never(queue, capacity) == FALSE

ChannelFull(queue, capacity) == Len(queue) >= capacity

\* A sample as the closure of main builds it from a row of the data
DataSample(sample_id, row) == [sample_id |-> sample_id, row |-> row]

\* The batch after the batcher received a sample with the batch full: the batch
\* was sent and is cleared, the sample is not pushed
BatcherFull(batch, sample) == <<>>

DlReady(n, batch_size) ==
    [pc |-> "ready", batch_size |-> batch_size,
     data |-> 1..n,              \* rows of self.data the parallel iterator still holds
     sample_count |-> 0,         \* the AtomicUsize of the reader task
     rd |-> [t \in Readers |-> <<>>],  \* the sample a pool thread is about to send
     tx_samples |-> FALSE,       \* whether the sender of the sample channel is alive
     samples |-> <<>>,           \* the sample channel
     sent |-> {},                \* the samples sent on the sample channel
     batcher |-> "off", sample |-> <<>>, batch |-> <<>>,
     batches |-> <<>>,           \* the batch channel
     main |-> "off", got |-> <<>>]
DlOff == [DlReady(0, 1) EXCEPT !.pc = "off"]

\* Dataloader::start: the channels are made and the two tasks spawned; main goes
\* on to its receive loop.
DlStart ==
    /\ dl.pc = "ready"
    /\ dl' = [dl EXCEPT !.pc = "running", !.tx_samples = TRUE,
                        !.batcher = "recv", !.main = "recv"]
    /\ UNCHANGED <<heap, ub, cl, src_t, wire, wire_from, de, rs, wp, pr, sc, vw>>

\* A pool thread takes a row of the data, draws its sample id and builds the sample.
ReaderTake(t) ==
    /\ dl.pc = "running"
    /\ dl.rd[t] = <<>>
    /\ \E row \in dl.data :
         dl' = [dl EXCEPT !.data = @ \ {row},
                          !.sample_count = @ + 1,
                          !.rd[t] = <<DataSample(dl.sample_count, row)>>]
    /\ UNCHANGED <<heap, ub, cl, src_t, wire, wire_from, de, rs, wp, pr, sc, vw>>

\* blocking_send of the sample: it waits while the sample channel is full.
ReaderSend(t) ==
    /\ dl.pc = "running"
    /\ dl.rd[t] # <<>>
    /\ ~ChannelFull(dl.samples, dl.batch_size)
    /\ dl' = [dl EXCEPT !.samples = Append(@, dl.rd[t][1]),
                        !.sent = @ \cup {dl.rd[t][1]},
                        !.rd[t] = <<>>]
    /\ UNCHANGED <<heap, ub, cl, src_t, wire, wire_from, de, rs, wp, pr, sc, vw>>

\* for_each returns once every row was sent: the reader task ends and drops
\* tx_samples.
ReaderEnd ==
    /\ dl.pc = "running"
    /\ dl.tx_samples
    /\ dl.data = {} /\ \A t \in Readers : dl.rd[t] = <<>>
    /\ dl' = [dl EXCEPT !.tx_samples = FALSE]
    /\ UNCHANGED <<heap, ub, cl, src_t, wire, wire_from, de, rs, wp, pr, sc, vw>>

\* The batcher's recv: a sample, or None once the channel is closed and empty,
\* which ends the task and drops tx_batcher.
BatcherRecv ==
    /\ dl.batcher = "recv"
    /\ IF dl.samples # <<>>
       THEN dl' = [dl EXCEPT !.samples = Tail(@), !.sample = <<Head(dl.samples)>>,
                             !.batcher = "have"]
       ELSE /\ ~dl.tx_samples
            /\ dl' = [dl EXCEPT !.batcher = "done"]
    /\ UNCHANGED <<heap, ub, cl, src_t, wire, wire_from, de, rs, wp, pr, sc, vw>>

\* The body of the batcher's loop: the sample is pushed while the batch is short
\* of batch_size; otherwise the batch is sent (the send waits while the batch
\* channel is full) and cleared.
BatcherStep ==
    /\ dl.batcher = "have"
    /\ IF Len(dl.batch) < dl.batch_size
       THEN dl' = [dl EXCEPT !.batch = Append(@, dl.sample[1]), !.sample = <<>>,
                             !.batcher = "recv"]
       ELSE /\ ~ChannelFull(dl.batches, dl.batch_size)
            /\ dl' = [dl EXCEPT !.batches = Append(@, dl.batch),
                                !.batch = BatcherFull(dl.batch, dl.sample[1]),
                                !.sample = <<>>,
                                !.batcher = "recv"]
    /\ UNCHANGED <<heap, ub, cl, src_t, wire, wire_from, de, rs, wp, pr, sc, vw>>

\* The loop of main: a batch, or None once the batch channel is closed and empty.
MainRecv ==
    /\ dl.main = "recv"
    /\ IF dl.batches # <<>>
       THEN dl' = [dl EXCEPT !.batches = Tail(@), !.got = Append(@, Head(dl.batches))]
       ELSE /\ dl.batcher = "done"
            /\ dl' = [dl EXCEPT !.main = "done"]
    /\ UNCHANGED <<heap, ub, cl, src_t, wire, wire_from, de, rs, wp, pr, sc, vw>>

----------------------------------------------------------------------------
(* The frame capture: StreamCapture of io/stream.rs; WebcamCapture of          *)
(* io/webcam.rs has the same callback and the same run, line for line.         *)

\* tokio::sync::mpsc::channel(50)
FrameCapacity == 50

\* Where run goes after the user callback returned: `f(img)?`
RunAfter_ignores_error(ok) == "running"

RunAfter(ok) == IF ok THEN "running" ELSE "err"

NoResult       == [ok |-> FALSE, err |-> "none", frame |-> 0]
RunOk          == [ok |-> TRUE, err |-> "none", frame |-> 0]
RunErr(e, k)   == [ok |-> FALSE, err |-> e, frame |-> k]

\* The capture as new returns it: the pipeline is not playing, the callback owns
\* the sender tx, the capture owns the receiver.
ScBuilt ==
    [pc |-> "built", playing |-> FALSE,
     tx |-> TRUE,            \* whether the sender the callback owns is alive
     n |-> 0,                \* samples the appsink has announced so far
     cb |-> <<>>,            \* the frame new_sample is about to send
     buffer |-> <<>>,        \* the frame channel
     accepted |-> <<>>,      \* frames for which new_sample returned Ok
     handed |-> <<>>,        \* frames the user callback was invoked on
     outcome |-> <<>>,       \* what the user callback returned for each
     result |-> NoResult]    \* what run returned
ScOff == [ScBuilt EXCEPT !.pc = "off"]

\* run, up to its loop: the pipeline is set to Playing and the bus thread
\* spawned; set_state or bus() may fail, and run returns that error.
RunStart ==
    /\ sc.pc = "built"
    /\ \E ok \in BOOLEAN :
         IF ok
         THEN sc' = [sc EXCEPT !.pc = "running", !.playing = TRUE]
         ELSE sc' = [sc EXCEPT !.pc = "err", !.result = RunErr("pipeline", 0)]
    /\ UNCHANGED <<heap, ub, cl, src_t, wire, wire_from, de, rs, wp, pr, dl, vw>>

\* The appsink announces a sample and new_sample extracts the frame: a
\* malformed sample makes it return Err(FlowError::Error).
NewSample ==
    /\ sc.playing
    /\ sc.cb = <<>>
    /\ sc.n < MaxFrames
    /\ \E ok \in BOOLEAN :
         /\ ~ok => sc.n < MaxBad
         /\ sc' = [sc EXCEPT !.n = @ + 1,
                             !.cb = IF ok THEN <<sc.n + 1>> ELSE <<>>]
    /\ UNCHANGED <<heap, ub, cl, src_t, wire, wire_from, de, rs, wp, pr, dl, vw>>

\* tx.blocking_send(frame): it waits while the channel is full, then queues the
\* frame, and new_sample returns Ok(FlowSuccess::Ok).
NewSampleSend ==
    /\ sc.cb # <<>>
    /\ ~ChannelFull(sc.buffer, FrameCapacity)
    /\ sc' = [sc EXCEPT !.buffer = Append(@, sc.cb[1]),
                        !.accepted = Append(@, sc.cb[1]),
                        !.cb = <<>>]
    /\ UNCHANGED <<heap, ub, cl, src_t, wire, wire_from, de, rs, wp, pr, dl, vw>>

\* One turn of the loop of run: recv gives the oldest frame and the user
\* callback is invoked on it, or recv gives None (the sender is dropped and the
\* channel empty) and run returns Ok.
RunFrame ==
    /\ sc.pc = "running"
    /\ IF sc.buffer # <<>>
       THEN \E ok \in BOOLEAN :
              sc' = [sc EXCEPT !.buffer = Tail(@),
                               !.handed = Append(@, Head(sc.buffer)),
                               !.outcome = Append(@, ok),
                               !.pc = RunAfter(ok),
                               !.result = IF RunAfter(ok) = "err"
                                          THEN RunErr("callback", Head(sc.buffer))
                                          ELSE @]
       ELSE /\ ~sc.tx
            /\ sc' = [sc EXCEPT !.pc = "ok", !.result = RunOk]
    /\ UNCHANGED <<heap, ub, cl, src_t, wire, wire_from, de, rs, wp, pr, dl, vw>>

----------------------------------------------------------------------------
(* The video writer: VideoWriter::new and VideoWriter::write of io/video.rs.   *)
(* A u64 is a sequence of 8 limbs below 256, the lowest first, so that the      *)
(* arithmetic of write is that of the machine.                                 *)

U64Limbs  == 8
WideLimbs == U64Limbs + 4    \* limbs that hold the product of a u64 and 1_000_000_000
NsPerSec  == 1000000000

\* The number n < 2^31 in w limbs
ToLimbs(n, w) == [i \in 1..w |-> IF i > 4 THEN 0 ELSE (n \div 256^(i - 1)) % 256]

\* a * b in w limbs (the product modulo 256^w): column k of the long
\* multiplication sums the products of limbs i and k + 1 - i
RECURSIVE LimbsColumn(_, _, _, _)
LimbsColumn(a, b, k, i) ==
    IF i > k THEN 0
    ELSE (IF i <= Len(a) /\ k + 1 - i <= Len(b) THEN a[i] * b[k + 1 - i] ELSE 0)
            + LimbsColumn(a, b, k, i + 1)

RECURSIVE LimbsMulFrom(_, _, _, _, _)
LimbsMulFrom(a, b, k, carry, w) ==
    IF k > w THEN <<>>
    ELSE LET s == carry + LimbsColumn(a, b, k, 1)
         IN  <<s % 256>> \o LimbsMulFrom(a, b, k + 1, s \div 256, w)

LimbsMul(a, b, w) == LimbsMulFrom(a, b, 1, 0, w)

\* a / d for a divisor 0 < d < 2^30, truncated: long division, a bit at a time
RECURSIVE LimbsDiv8(_, _, _, _, _)
LimbsDiv8(rem, limb, d, b, q) ==
    IF b < 0 THEN <<q, rem>>
    ELSE LET r2 == 2 * rem + ((limb \div 2^b) % 2)
         IN  IF r2 >= d THEN LimbsDiv8(r2 - d, limb, d, b - 1, 2 * q + 1)
                        ELSE LimbsDiv8(r2, limb, d, b - 1, 2 * q)

RECURSIVE LimbsDivFrom(_, _, _, _)
LimbsDivFrom(a, d, i, rem) ==
    IF i = 0 THEN <<>>
    ELSE LET x == LimbsDiv8(rem, a[i], d, 7, 0)
         IN  LimbsDivFrom(a, d, i - 1, x[2]) \o <<x[1]>>

LimbsDiv(a, d) == LimbsDivFrom(a, d, Len(a), 0)

\* a + 1, wrapping
RECURSIVE LimbsInc(_)
LimbsInc(a) ==
    IF a = <<>> THEN <<>>
    ELSE IF Head(a) < 255 THEN <<Head(a) + 1>> \o Tail(a)
    ELSE <<0>> \o LimbsInc(Tail(a))

U64Zero == ToLimbs(0, U64Limbs)

\* The largest counter whose product with 1_000_000_000 is a u64: u64::MAX / 10^9
LastSafeCount == LimbsDiv([i \in 1..U64Limbs |-> 255], NsPerSec)

\* `self.fps as u64`: the fraction is dropped
FpsAsU64(fps) == F32Trunc(fps)

\* The rates a writer is built with: 1, 30, 29.97 and 0.5 frames per second
FpsValues ==
    {F32One, F32FromUsize(30), F32Div(F32FromUsize(2997), F32FromUsize(100)),
     F32Norm(1, -1)}

\* self.counter * 1_000_000_000 / self.fps as u64: <<pts>>, or <<>> for a panic
\* (the product overflows under overflow checks, or the divisor is 0); without
\* overflow checks the product wraps.
Pts(counter, fps, build) ==
    LET wide     == LimbsMul(counter, ToLimbs(NsPerSec, 4), WideLimbs)
        overflow == \E i \in (U64Limbs + 1)..WideLimbs : wide[i] # 0
    IN  IF overflow /\ build = "debug" THEN <<>>
        ELSE IF FpsAsU64(fps) = 0 THEN <<>>
        ELSE <<LimbsDiv(SubSeq(wide, 1, U64Limbs), FpsAsU64(fps))>>

\* self.counter += 1
CounterNext(counter) == LimbsInc(counter)

\* A writer as new returns it (counter: 0), or one that has since written
\* `written` frames
VwReady(fps, build, written) ==
    [pc |-> "ready", fps |-> fps, build |-> build,
     counter |-> written,    \* self.counter
     calls |-> written,      \* calls of write since construction
     log |-> <<>>]           \* what each call the model follows did
VwOff == [VwReady(F32One, "release", U64Zero) EXCEPT !.pc = "off"]

WrittenBefore == {U64Zero, LastSafeCount}

\* A call of write. Buffer::with_size, map_writable and push_buffer may fail.
VideoWriter_write ==
    /\ vw.pc = "ready"
    /\ Len(vw.log) < MaxWrites
    /\ \E failure \in {"none", "with_size", "map_writable", "push_buffer"} :
         LET pts    == IF failure = "with_size" THEN <<>>
                       ELSE Pts(vw.counter, vw.fps, vw.build)
             built  == failure # "with_size"
             panics == built /\ pts = <<>>
             after  == IF built /\ ~panics /\ failure # "map_writable"
                       THEN CounterNext(vw.counter) ELSE vw.counter
             entry  == [n |-> vw.calls, built |-> built, pts |-> pts,
                        before |-> vw.counter, after |-> after,
                        res |-> IF panics THEN "panic"
                                ELSE IF failure = "none" THEN "ok" ELSE "err"]
         IN  vw' = [vw EXCEPT !.pc = IF panics THEN "panicked" ELSE "ready",
                              !.counter = after,
                              !.calls = LimbsInc(@),
                              !.log = Append(@, entry)]
    /\ UNCHANGED <<heap, ub, cl, src_t, wire, wire_from, de, rs, wp, pr, dl, sc>>

----------------------------------------------------------------------------
(* Specifications *)

RsReady(img) == [pc |-> "ready", image |-> img, new_size |-> NoSize, build |-> "release",
                 out |-> ResizePanic, probe |-> NoProbe]
RsOff == [RsReady(SrcImage(0, 0, 0, 0, 0, 0)) EXCEPT !.pc = "off"]

WpReady(img) == [pc |-> "ready", image |-> img, m |-> NoMatrix, new_size |-> NoSize,
                 out |-> WarpPanic]
WpOff == [WpReady(SrcImage(0, 0, 0, 0, 0, 0)) EXCEPT !.pc = "off"]

PrReady(img) == [pc |-> "ready", image |-> img, new_size |-> NoSize, build |-> "release",
                 out |-> <<>>, writes |-> <<>>, by |-> <<>>,
                 row |-> [w \in Workers |-> Idle], col |-> [w \in Workers |-> 0],
                 reordered |-> FALSE]
PrOff == [PrReady(SrcImage(0, 0, 0, 0, 0, 0)) EXCEPT !.pc = "off"]

InitAlloc ==
    /\ heap = EmptyHeap /\ ub = FALSE
    /\ cl = [c \in Clients |-> ClientInit]
    /\ src_t = <<>> /\ wire = <<>> /\ wire_from = <<>>
    /\ dl = DlOff /\ sc = ScOff /\ vw = VwOff
    /\ de = DeOff
    /\ rs = RsOff
    /\ wp = WpOff /\ pr = PrOff

NextAlloc == \E c \in Clients : CycleAlloc(c) \/ CycleDealloc(c)

SpecAlloc == InitAlloc /\ [][NextAlloc]_vars

InitSerde ==
    /\ heap = EmptyHeap /\ ub = FALSE
    /\ cl = [c \in Clients |-> ClientOff]
    /\ src_t = <<>> /\ wire = <<>> /\ wire_from = <<>>
    /\ dl = DlOff /\ sc = ScOff /\ vw = VwOff
    /\ de = DeIdle
    /\ rs = RsOff
    /\ wp = WpOff /\ pr = PrOff

NextSerde ==
    \/ NewTensor
    \/ DropSrc
    \/ Serialize
    \/ SerializeResult
    \/ Inject
    \/ DeParse
    \/ DeStorage
    \/ DeShape
    \/ DeStrides
    \/ DeRelease
    \/ DeReset

SpecSerde == InitSerde /\ [][NextSerde]_vars

InitResize ==
    /\ heap = EmptyHeap /\ ub = FALSE
    /\ cl = [c \in Clients |-> ClientOff]
    /\ src_t = <<>> /\ wire = <<>> /\ wire_from = <<>>
    /\ dl = DlOff /\ sc = ScOff /\ vw = VwOff
    /\ de = DeOff
    /\ \E img \in SrcImages : rs = RsReady(img)
    /\ wp = WpOff /\ pr = PrOff

NextResize == Resize \/ Interpolate

SpecResize == InitResize /\ [][NextResize]_vars

InitWarp ==
    /\ heap = EmptyHeap /\ ub = FALSE
    /\ cl = [c \in Clients |-> ClientOff]
    /\ src_t = <<>> /\ wire = <<>> /\ wire_from = <<>>
    /\ dl = DlOff /\ sc = ScOff /\ vw = VwOff
    /\ de = DeOff
    /\ rs = RsOff /\ pr = PrOff
    /\ \E img \in WarpImages : wp = WpReady(img)

NextWarp == Warp

SpecWarp == InitWarp /\ [][NextWarp]_vars

InitPar ==
    /\ heap = EmptyHeap /\ ub = FALSE
    /\ cl = [c \in Clients |-> ClientOff]
    /\ src_t = <<>> /\ wire = <<>> /\ wire_from = <<>>
    /\ dl = DlOff /\ sc = ScOff /\ vw = VwOff
    /\ de = DeOff
    /\ rs = RsOff /\ wp = WpOff
    /\ \E img \in PrImages : pr = PrReady(img)

NextPar ==
    \/ ParStart
    \/ \E w \in Workers : \E i \in 0..(MaxRows - 1) : ParTake(w, i)
    \/ \E w \in Workers : ParPixel(w)
    \/ ParJoin

SpecPar == InitPar /\ [][NextPar]_vars

InitOff ==
    /\ heap = EmptyHeap /\ ub = FALSE
    /\ cl = [c \in Clients |-> ClientOff]
    /\ src_t = <<>> /\ wire = <<>> /\ wire_from = <<>>
    /\ de = DeOff
    /\ rs = RsOff /\ wp = WpOff /\ pr = PrOff

InitLoader ==
    /\ InitOff
    /\ \E n \in 0..MaxSamples, batch_size \in BatchSizes : dl = DlReady(n, batch_size)
    /\ sc = ScOff /\ vw = VwOff

NextLoader ==
    \/ DlStart
    \/ \E t \in Readers : ReaderTake(t)
    \/ \E t \in Readers : ReaderSend(t)
    \/ ReaderEnd
    \/ BatcherRecv
    \/ BatcherStep
    \/ MainRecv

SpecLoader == InitLoader /\ [][NextLoader]_vars

InitCapture ==
    /\ InitOff
    /\ dl = DlOff /\ vw = VwOff
    /\ sc = ScBuilt

NextCapture == RunStart \/ NewSample \/ NewSampleSend \/ RunFrame

SpecCapture == InitCapture /\ [][NextCapture]_vars

InitVideo ==
    /\ InitOff
    /\ dl = DlOff /\ sc = ScOff
    /\ \E fps \in FpsValues, build \in Builds, written \in WrittenBefore :
         vw = VwReady(fps, build, written)

NextVideo == VideoWriter_write

SpecVideo == InitVideo /\ [][NextVideo]_vars

\* The components together: one of them runs, the others stay off.
Init == InitAlloc \/ InitSerde \/ InitResize \/ InitWarp \/ InitPar \/ InitLoader
            \/ InitCapture \/ InitVideo

Next == NextAlloc \/ NextSerde \/ NextResize \/ NextWarp \/ NextPar \/ NextLoader
            \/ NextCapture \/ NextVideo

Spec == Init /\ [][Next]_vars

----------------------------------------------------------------------------
(* Properties of the serialization bridge, checked under SpecSerde *)

DeDone == de.pc = "done"
DeRoundTrip == DeDone /\ de.from # <<>>
RankMismatchErrors == {"Invalid shape", "Invalid strides"}

\* C1 as stated: deserializing the record that serializing a tensor t produced
\* always succeeds, and the tensor it returns has t's elements, shape and strides.
C1_RoundTripAlwaysSucceeds ==
    DeRoundTrip =>
        /\ de.result.ok
        /\ Fields(de.result.tensor[1]) = de.from[1]

\* C1 (amended): deserializing the record that serializing a tensor t produced
\* returns a tensor with t's elements, shape and strides, unless the allocator
\* refused the block of the new storage; then, and only then, it returns the
\* error "Invalid storage".
C1_RoundTrip ==
    DeRoundTrip =>
        IF de.raw # NULL
        THEN /\ de.result.ok
             /\ Fields(de.result.tensor[1]) = de.from[1]
        ELSE de.result = DeErr("Invalid storage")

\* A round trip that returned a tensor whose shape and strides differ
C1_Witness ==
    /\ DeRoundTrip
    /\ de.result.ok
    /\ de.from[1].shape # de.from[1].strides
    /\ Len(de.from[1].data) = MaxLen

\* C2: a record whose shape or strides is not of length N is answered with an
\* error, and a returned tensor carries the record's shape and strides as they
\* were, neither truncated nor padded.
C2_RankMismatchRejected ==
    DeDone =>
        LET r == de.rec[1] IN
        /\ (Len(r.shape) # RankN \/ Len(r.strides) # RankN) => ~de.result.ok
        /\ de.result.ok =>
             /\ de.result.tensor[1].shape = r.shape
             /\ de.result.tensor[1].strides = r.strides

\* A record with a shape longer than N was rejected after its storage was built
C2_Witness ==
    /\ DeDone
    /\ Len(de.rec[1].shape) > RankN
    /\ de.result = DeErr("Invalid shape")

\* C3 as stated: the shape of every tensor deserialize returns multiplies to the
\* number of elements of its storage.
C3_ShapeMatchesElementCount ==
    (DeDone /\ de.result.ok) =>
        Product(de.result.tensor[1].shape) = Len(de.result.tensor[1].storage.data)

\* C4 as stated: a record rejected for a rank mismatch caused no allocator call.
C4_RejectedBeforeStorage ==
    (DeDone /\ de.result.err \in RankMismatchErrors) => de.calls = <<>>

\* The blocks owned by the live storages
Owners ==
    [s : {"src"}, p : {src_t[i].storage.ptr : i \in DOMAIN src_t}]
      \cup [s : {"local"}, p : {de.storage[i].ptr : i \in DOMAIN de.storage}]
      \cup [s : {"result"},
            p : {de.result.tensor[i].storage.ptr : i \in DOMAIN de.result.tensor}]

AllocThenDealloc(calls) ==
    /\ Len(calls) = 2
    /\ calls[1][1] = "alloc" /\ calls[2][1] = "dealloc"
    /\ calls[1][2] = calls[2][2] /\ calls[1][2] # NULL
    /\ calls[1][3] = calls[2][3]

\* C7: every block a storage obtained is released exactly once, with the layout it
\* was allocated with: no dealloc is outside the allocator's contract, the live
\* blocks are exactly those of the live storages (one owner each), a deserialize
\* that fails on the shape or strides conversion has allocated and released its
\* block, and so has one whose returned tensor reached the end of its lifetime.
C7_ReleasedExactlyOnce ==
    /\ ~ub
    /\ Live(heap) = {o.p : o \in Owners}
    /\ Cardinality(Owners) = Cardinality(Live(heap))
    /\ (DeDone /\ de.result.err \in RankMismatchErrors) => AllocThenDealloc(de.calls)
    /\ (de.pc = "released" /\ de.raw # NULL) => AllocThenDealloc(de.calls)

\* A deserialize that built its storage, failed on the strides and released the block
C7_Witness ==
    /\ DeDone
    /\ de.result = DeErr("Invalid strides")
    /\ AllocThenDealloc(de.calls)
    /\ Live(heap) = {}

----------------------------------------------------------------------------
(* Properties of the allocator, checked under SpecAlloc *)

Called(c) == cl[c].layout # NoLayout

\* C5: alloc returns Ok only with a non-null pointer, and a null block from the
\* platform is answered with Err(InvalidPointer).
C5_AllocNeverOkNull ==
    \A c \in Clients :
        /\ cl[c].res.ok => cl[c].res.ptr # NULL
        /\ (Called(c) /\ cl[c].raw = NULL) => cl[c].res = Err("InvalidPointer")

\* The platform returned a null block and alloc answered with the error
C5_Witness ==
    \E c \in Clients :
        Called(c) /\ cl[c].raw = NULL /\ cl[c].res = Err("InvalidPointer")

Holding == {c \in Clients : cl[c].pc = "allocated"}

\* C6: every alloc succeeds when the platform provides a block; no dealloc is
\* outside the contract (each block is released at most once, with the layout it
\* was allocated with); the live blocks are exactly those of the clients between
\* their alloc and their dealloc, so after a cycle none of its blocks is left.
C6_CyclesBalanced ==
    /\ \A c \in Clients :
         (Called(c) /\ cl[c].raw # NULL) => (cl[c].res.ok /\ cl[c].res.ptr = cl[c].raw)
    /\ ~ub
    /\ Live(heap) = {cl[c].res.ptr : c \in Holding}
    /\ \A c \in Holding : heap[cl[c].res.ptr] = cl[c].layout
    /\ \A c, d \in Holding : c # d => cl[c].res.ptr # cl[d].res.ptr

\* Every client has run all its cycles, the last one with success, and the heap is empty
C6_Witness ==
    /\ \A c \in Clients : cl[c].n = MaxCycles /\ cl[c].pc = "start" /\ cl[c].res.ok
    /\ Live(heap) = {}

----------------------------------------------------------------------------
(* Properties of the resize engine, checked under SpecResize *)

RsDone   == rs.pc = "done"
RsProbed == rs.pc = "probed"
NonEmpty(size) == size.h >= 1 /\ size.w >= 1

\* C8 as stated: for a source of height, width >= 1 and a target of height,
\* width >= 1, resize returns an image of the target's height and width with 3
\* channels.
C8_ResizeOutputSize ==
    (RsDone /\ NonEmpty(rs.image) /\ NonEmpty(rs.new_size)) =>
        /\ ~rs.out.panic
        /\ rs.out.image[1].h = rs.new_size.h
        /\ rs.out.image[1].w = rs.new_size.w
        /\ DOMAIN rs.out.image[1].data = Idx(rs.new_size.h, rs.new_size.w)

\* C9 as stated: resizing an image to its own height and width returns the source
\* value at every (row, column, channel).
C9_ResizeIdentity ==
    (RsDone /\ NonEmpty(rs.image)
        /\ rs.new_size.h = rs.image.h /\ rs.new_size.w = rs.image.w) =>
        /\ ~rs.out.panic
        /\ \A p \in Idx(rs.image.h, rs.image.w) :
             rs.out.image[1].data[p] = Pixel(rs.image, p[1], p[2], p[3])

\* C10 as stated: at a whole-numbered (u, v) inside the image, the interpolated
\* value of channel c is the source sample at (row v, column u, channel c).
C10_ExactAtIntegerCoordinates ==
    (RsProbed /\ F32Fract(rs.probe.u) = F32Zero /\ F32Fract(rs.probe.v) = F32Zero) =>
        /\ ~rs.probe.res.panic
        /\ rs.probe.res.val =
             F32FromUsize(Pixel(rs.image, F32Trunc(rs.probe.v), F32Trunc(rs.probe.u),
                                rs.probe.c))

\* The image all of whose channels carry channel c of img
ChannelOnly(img, c) ==
    SrcImage(img.h, img.w, (img.base + img.gk * c) % 256, img.gr, img.gc, 0)

RsReturned == RsDone /\ ~rs.out.panic
RsGrid     == ResizeGrid(rs.image, rs.new_size)
RsOut      == rs.out.image[1].data
SmallSource == rs.image.h \in 1..MaxSrc /\ rs.image.w \in 1..MaxSrc

\* C11 as stated: the value resize writes to channel c of an output pixel is a
\* function of the source samples of channel c alone: it is the value resize writes
\* there for the source whose other channels are replaced (by copies of channel c).
C11_ChannelsIndependent ==
    RsReturned =>
        LET grid == RsGrid
        IN  \A p \in DOMAIN RsOut :
                RsOut[p] = CastU8(ResizeCell(ChannelOnly(rs.image, p[3]), grid, p).val)

\* C12 as stated: an output pixel of resize whose source coordinate (u, v) is not
\* inside [0, srcW - 1) x [0, srcH - 1) is zero in every channel.
C12_BlankOutsideFrame ==
    RsReturned =>
        LET grid == RsGrid
        IN  \A p \in DOMAIN RsOut :
                LET u == grid.xx[<<p[1], p[2]>>]
                    v == grid.yy[<<p[1], p[2]>>]
                IN  ~(F32Trunc(u) < rs.image.w - 1 /\ F32Trunc(v) < rs.image.h - 1)
                        => RsOut[p] = 0

\* C14 as stated (for the sources of at most MaxSrc rows and columns): resize of a
\* source all of whose values are one constant k returns an image all of whose
\* values are k.
C14_ConstantFieldInvariant ==
    (RsDone /\ SmallSource /\ rs.image.gr = 0 /\ rs.image.gc = 0 /\ rs.image.gk = 0) =>
        /\ ~rs.out.panic
        /\ \A p \in DOMAIN RsOut : RsOut[p] = rs.image.base

\* C15 as stated (for the sources of at most MaxSrc rows and columns): the grid of
\* resize has shape (dstH, dstW); u depends on the column alone and v on the row
\* alone; column 0 and row 0 map to 0; along an axis of two output pixels or more,
\* column c maps to c * (srcW - 1) / (dstW - 1), the f32 nearest to it, and the last
\* column to srcW - 1 (likewise for the rows).
C15_CoordinateMapping ==
    (RsDone /\ SmallSource) =>
        LET g    == RsGrid
            dstH == rs.new_size.h
            dstW == rs.new_size.w
        IN  /\ g.shape = <<dstH, dstW>>
            /\ \A q \in (0..(dstH - 1)) \X (0..(dstW - 1)) :
                 /\ g.xx[q] = g.xx[<<0, q[2]>>]
                 /\ g.yy[q] = g.yy[<<q[1], 0>>]
                 /\ q[2] = 0 => g.xx[q] = F32Zero
                 /\ q[1] = 0 => g.yy[q] = F32Zero
                 /\ dstW >= 2 =>
                      /\ g.xx[q] = F32Div(F32FromUsize(q[2] * (rs.image.w - 1)),
                                          F32FromUsize(dstW - 1))
                      /\ q[2] = dstW - 1 => g.xx[q] = F32FromUsize(rs.image.w - 1)
                 /\ dstH >= 2 =>
                      /\ g.yy[q] = F32Div(F32FromUsize(q[1] * (rs.image.h - 1)),
                                          F32FromUsize(dstH - 1))
                      /\ q[1] = dstH - 1 => g.yy[q] = F32FromUsize(rs.image.h - 1)

\* C17 as stated: resize never returns an image whose height or width is zero.
C17_ZeroTargetRejected ==
    RsReturned => NonEmpty(rs.out.image[1])

\* C18 as stated: resize never panics, whatever the sizes of the source and of
\* the target.
C18_ResizeNeverPanics ==
    RsDone => ~rs.out.panic

\* C19 as stated: for (iu, iv) inside the image, the right tap when iu + 1 >= width,
\* the lower tap when iv + 1 >= height, and the diagonal tap when either holds, is
\* the (iu, iv) sample of the channel being interpolated.
C19_TapsReplicateOwnChannel ==
    (RsProbed /\ ~rs.probe.res.panic) =>
        LET iu  == F32Trunc(rs.probe.u)
            iv  == F32Trunc(rs.probe.v)
            t   == Taps(rs.image, iu, iv, rs.probe.c)
            own == Pixel(rs.image, iv, iu, rs.probe.c)
            right == iu + 1 >= rs.image.w
            below == iv + 1 >= rs.image.h
        IN  /\ right => t[2] = own
            /\ below => t[3] = own
            /\ (right \/ below) => t[4] = own

\* C20: every value resize stores is its weighted sum s truncated toward zero:
\* for s < 256 the stored value o is the whole number with o <= s < o + 1.
C20_CastTruncates ==
    RsReturned =>
        LET grid == RsGrid
        IN  \A p \in DOMAIN RsOut :
                LET s == ResizeCell(rs.image, grid, p).val
                IN  F32Lt(s, F32FromUsize(256)) =>
                      /\ F32Le(F32FromUsize(RsOut[p]), s)
                      /\ F32Lt(s, F32FromUsize(RsOut[p] + 1))

\* resize stored a value whose weighted sum lies one half or more above it
C20_Witness ==
    /\ RsReturned
    /\ rs.new_size.w <= MaxDst
    /\ LET grid == RsGrid
       IN  \E p \in DOMAIN RsOut :
             LET s == ResizeCell(rs.image, grid, p).val
             IN  /\ F32Le(F32Norm(1, -1), F32Fract(s))
                 /\ RsOut[p] >= 100
                 /\ F32Le(F32FromUsize(RsOut[p]), s)

----------------------------------------------------------------------------
(* Properties of the warp, checked under SpecWarp *)

WpDone == wp.pc = "done"

IsTranslation(m) ==
    /\ m[1] = S32FromUsize(1) /\ m[2] = S32Zero
    /\ m[4] = S32Zero /\ m[5] = S32FromUsize(1)

\* Twice the value of x, a whole number for the shifts of the model
Twice(x) == x.s * F32Trunc(F32Add(x.a, x.a))

\* The translation of wp maps every output pixel outside [0, w) x [0, h)
AllOutside ==
    \A r \in 0..(wp.new_size.h - 1), c \in 0..(wp.new_size.w - 1) :
        LET u2 == 2 * c + Twice(wp.m[3])
            v2 == 2 * r + Twice(wp.m[6])
        IN  u2 < 0 \/ u2 >= 2 * wp.image.w \/ v2 < 0 \/ v2 >= 2 * wp.image.h

\* C13: a warp by a translation that maps every output pixel outside
\* [0, w) x [0, h) returns an image of the requested height and width, 3 channels,
\* every value of which is zero.
C13_TranslatedOutsideIsBlank ==
    (WpDone /\ IsTranslation(wp.m) /\ AllOutside) =>
        /\ ~wp.out.panic
        /\ wp.out.image[1].h = wp.new_size.h
        /\ wp.out.image[1].w = wp.new_size.w
        /\ DOMAIN wp.out.image[1].data = Idx(wp.new_size.h, wp.new_size.w)
        /\ \A p \in Idx(wp.new_size.h, wp.new_size.w) : wp.out.image[1].data[p] = S32Zero

\* A source and a target of the largest sizes, a translation to the right of the
\* source by exactly its width, and the blank image returned
C13_Witness ==
    /\ WpDone /\ IsTranslation(wp.m) /\ AllOutside
    /\ wp.image.h = MaxSrc /\ wp.image.w = MaxSrc
    /\ wp.new_size.h = MaxSrc + 1 /\ wp.new_size.w = MaxSrc + 1
    /\ Twice(wp.m[3]) = 2 * wp.image.w /\ wp.m[6] = S32Zero
    /\ ~wp.out.panic
    /\ \A p \in Idx(wp.new_size.h, wp.new_size.w) : wp.out.image[1].data[p] = S32Zero

----------------------------------------------------------------------------
(* Properties of the resize by a pool of workers, checked under SpecPar *)

PrSequential == resize(pr.image, pr.new_size, pr.build)

----------------------------------------------------------------------------
(* Properties of the dataloader, checked under SpecLoader *)

\* The number of batches main received that hold the sample s
DlCopies(s) ==
    Cardinality({<<i, j>> \in (DOMAIN dl.got) \X (1..MaxBatch) :
                    j <= Len(dl.got[i]) /\ dl.got[i][j] = s})

\* C21 as stated: no sample sent on the sample channel is in two batches, and
\* once the loop of main has ended every sample sent is in exactly one of the
\* batches main received.
C21_BatchingLosesNothing ==
    /\ \A s \in dl.sent : DlCopies(s) <= 1
    /\ dl.main = "done" => \A s \in dl.sent : DlCopies(s) = 1

----------------------------------------------------------------------------
(* Properties of the frame capture, checked under SpecCapture *)

\* C22: the frames new_sample accepted are, in the order it accepted them, the
\* frames handed to the user callback followed by the frames waiting in the
\* channel, each of them once; the channel never holds more than 50 frames, and
\* a frame new_sample holds while the channel is full is not yet accepted.
C22_FramesDeliveredInOrder ==
    /\ sc.accepted = sc.handed \o sc.buffer
    /\ \A i, j \in DOMAIN sc.accepted : i < j => sc.accepted[i] < sc.accepted[j]
    /\ Len(sc.buffer) <= FrameCapacity
    /\ sc.cb # <<>> => \A i \in DOMAIN sc.accepted : sc.accepted[i] # sc.cb[1]

\* The channel is full, new_sample waits with a frame in hand, run has handed
\* frames to the user callback and a malformed sample was skipped
C22_Witness ==
    /\ sc.pc = "running"
    /\ Len(sc.buffer) = FrameCapacity
    /\ sc.cb # <<>>
    /\ Len(sc.handed) >= 1
    /\ Len(sc.accepted) + 1 < sc.n

\* C23: the user callback failed on no frame but the last it was invoked on;
\* when it failed, run has returned that error, of that frame; run returns a
\* callback error only then; and run returns Ok only with the sender dropped,
\* the channel empty and every accepted frame handed over with success.
C23_RunStopsAtFirstFailure ==
    LET calls == Len(sc.outcome)
    IN  /\ Len(sc.handed) = calls
        /\ \A i \in 1..(calls - 1) : sc.outcome[i]
        /\ (calls > 0 /\ ~sc.outcome[calls]) =>
              /\ sc.pc = "err"
              /\ sc.result = RunErr("callback", sc.handed[calls])
        /\ sc.result.err = "callback" => (calls > 0 /\ ~sc.outcome[calls])
        /\ (sc.pc = "ok" \/ sc.result.ok) =>
              /\ ~sc.tx /\ sc.buffer = <<>>
              /\ sc.handed = sc.accepted
              /\ \A i \in 1..calls : sc.outcome[i]

\* run returned the error of the callback's failure on a frame after frames that
\* succeeded, and frames accepted later wait in the channel, not handed over
C23_Witness ==
    /\ sc.pc = "err"
    /\ Len(sc.handed) >= 2
    /\ sc.result = RunErr("callback", sc.handed[Len(sc.handed)])
    /\ Len(sc.buffer) >= 2

----------------------------------------------------------------------------
(* Properties of the video writer, checked under SpecVideo *)

\* a widened to w limbs
LimbsPad(a, w) == a \o [i \in 1..(w - Len(a)) |-> 0]

\* a <= b for a and b of the same width
RECURSIVE LimbsLe(_, _)
LimbsLe(a, b) ==
    IF a = <<>> THEN TRUE
    ELSE LET n == Len(a)
         IN  IF a[n] # b[n] THEN a[n] < b[n]
             ELSE LimbsLe(SubSeq(a, 1, n - 1), SubSeq(b, 1, n - 1))

\* floor(n * 10^9 / floor(fps)), exactly, in WideLimbs limbs
ExactPts(n, fps) ==
    LimbsDiv(LimbsMul(n, ToLimbs(NsPerSec, 4), WideLimbs), FpsAsU64(fps))

\* C24 as stated: every call of write that builds a buffer stamps it, the n-th
\* call with floor(n * 10^9 / floor(fps)) nanoseconds; the stamps of the frames
\* written never decrease; and each call that builds a buffer adds exactly 1 to
\* the counter, whether or not the push succeeds, a call that builds none adds 0.
C24_TimestampsFollowCalls ==
    /\ \A i \in DOMAIN vw.log :
         LET e == vw.log[i]
         IN  /\ e.built =>
                  /\ e.pts # <<>>
                  /\ FpsAsU64(vw.fps) # 0
                  /\ LimbsPad(e.pts[1], WideLimbs) = ExactPts(e.n, vw.fps)
                  /\ e.after = LimbsInc(e.before)
             /\ ~e.built => e.after = e.before
    /\ \A i, j \in DOMAIN vw.log :
         (i < j /\ vw.log[i].res = "ok" /\ vw.log[j].res = "ok")
            => LimbsLe(vw.log[i].pts[1], vw.log[j].pts[1])

====
